---- MODULE Spec2Model ----
(***************************************************************************)
(* Signaling relay (src/server/signaling-server.js) and the WebRTCStreamer *)
(* client (src/lib/bonding-curves.ts) of creator.v3.                       *)
(*                                                                         *)
(* Strings that the code parses or formats (viewer ids) are sequences of   *)
(* tokens: the token "viewer-", the decimal digits and the letter "x".     *)
(* A JS Set/Map keeps insertion order, so a viewer set is a sequence       *)
(* without duplicates.                                                     *)
(***************************************************************************)
EXTENDS Integers, Sequences, FiniteSets, TLC

\* ------------------------------------------------------------------ bounds
\* join messages the server handles from connections that have joined before
MaxRejoins == 1
\* signaling sockets of one streamer that are alive at the same time
MaxSockets == 2
\* reconnect timers of one streamer that are pending at the same time
MaxTimers == 2
\* peer connections of one streamer that are alive at the same time
MaxPcs == 2
\* remote ICE candidates a streamer receives during a run
MaxCandidates == 2
\* operations pending on one peer connection's operations chain
MaxChain == 2
\* ICE candidates the peer connections of a streamer generate during a run
MaxGathered == 2
\* ticks of the clock the bitrate controller is observed for
MaxTicks == 4
\* setParameters calls of the bitrate controller that are in flight at the same time
MaxPending == 2
\* destinations a multi-stream manager is constructed with
MaxDestinations == 2

\* ------------------------------------------------------ program constants
\* private maxReconnectAttempts = 5
maxReconnectAttempts == 5
\* setTimeout(..., 2000 * this.reconnectAttempts)
BaseDelay == 2000
\* private readonly adjustmentThreshold = 5000
adjustmentThreshold == 5000

\* ------------------------------------------------------------- value sets
StreamOrder == <<"abc", "xyz">>
StreamIds == {StreamOrder[i] : i \in 1..Len(StreamOrder)}
\* <<type, data>> of the relayed messages a connection may send
RelayInputs == {<<"offer", "sdp1">>, <<"answer", "sdp2">>, <<"ice-candidate", "cand1">>}
\* values Date.now() returns (far above any index into a viewer set)
Timestamps == {1700}

\* the connections the server accepts during a run
Conns == {1, 2, 3}
NoConn == 0
NoStream == "null"
NoRole == "null"
NoData == "nodata"
Undefined == <<"undefined">>
NaN == -1

VARIABLES
  streams,          \* Map streamId -> {broadcaster, viewers}
  currentStreamId,  \* per connection closure variable
  role,             \* per connection closure variable
  readyState,       \* per connection: "pending" (not yet accepted), "open", "closed"
  lastEvent,        \* the event handled by the last step
  lastSent,         \* the messages that step put on open connections, in order
  lastRequest,      \* history: the latest viewer-request forwarded, and for whom
  tracking,         \* whether lastRequest is recorded in this behaviour
  rejoins           \* history: joins handled from connections that had joined before

serverVars == <<streams, currentStreamId, role, readyState, lastEvent, lastSent,
                lastRequest, tracking, rejoins>>

VARIABLES
  streamerRole,       \* WebRTCStreamer.role
  localStream,        \* "none" (undefined), "empty" (no tracks) or "live"
  ws,                 \* the socket this.ws refers to, 0 for null
  sockets,            \* the sockets that are alive, or closed and still referred to
  reconnectAttempts,
  reconnectTimeout,   \* the handle this.reconnectTimeout holds
  timers,             \* the handles of the pending setTimeout callbacks
  peerConnection,     \* the peer connection this.peerConnection refers to, 0 for null
  pcs,                \* the peer connections that are current or have pending operations
  clientSent,         \* the messages the last step sent through this.ws
  delays,             \* history: the delays scheduled since the last successful open
  gaveUp,             \* history: a disconnect scheduled nothing since the last open
  arrived,            \* history: the remote ICE candidates received so far
  applied,            \* history: the candidates applied, in the order applied
  rejected,           \* history: the candidates addIceCandidate rejected
  dropped,            \* history: the candidates received with no peer connection
  eligible,           \* history: the candidates received after the remote description was set
  gathered            \* history: the number of ICE candidates the peer connections generated

clientVars == <<streamerRole, localStream, ws, sockets, reconnectAttempts,
                reconnectTimeout, timers, peerConnection, pcs, clientSent,
                delays, gaveUp, arrived, applied, rejected, dropped, eligible, gathered>>

VARIABLES
  currentQuality,     \* AdaptiveBitrateController.currentQuality
  lastAdjustment,     \* AdaptiveBitrateController.lastAdjustment
  encodings,          \* the encodings of the parameters of the controlled sender
  pending,            \* the setParameters calls in flight, and the callers awaiting them
  clock,              \* the value Date.now() returns
  counters,           \* what the sender has sent so far: packetsSent, packetsLost, bytesSent
  roundTrip,          \* the round-trip time of the succeeded candidate pair, NoPair when none
  sendRate            \* history: the bits per second sent during the latest tick

bitrateVars == <<currentQuality, lastAdjustment, encodings, pending, clock, counters,
                 roundTrip, sendRate>>

VARIABLES
  destinations,       \* MultiStreamManager.destinations
  rtmpEndpoints,      \* Map platform -> RTMP url
  multiStreams        \* MultiStreamManager.streams: Map platform -> cloned MediaStream

multiVars == <<destinations, rtmpEndpoints, multiStreams>>

mediaVars == <<bitrateVars, multiVars>>

vars == <<serverVars, clientVars, mediaVars>>

\* --------------------------------------------------------------- helpers
Range(seq) == {seq[i] : i \in 1..Len(seq)}

\* Map.has
Has(s) == s \in DOMAIN streams

\* the value of `{ broadcaster: null, viewers: new Set() }`
NewSession == [broadcaster |-> NoConn, viewers |-> <<>>]

\* Map.set on a map m
MapSet(m, k, v) == [s \in DOMAIN m \cup {k} |-> IF s = k THEN v ELSE m[s]]

\* Map.delete on a map m
MapDelete(m, k) == [s \in DOMAIN m \ {k} |-> m[s]]

\* Set.add: insertion order kept, no duplicates
SetAdd(set, c) == IF c \in Range(set) THEN set ELSE Append(set, c)

\* Set.delete
SetDelete(set, c) == SelectSeq(set, LAMBDA x : x # c)

\* Array.indexOf, 0-based, -1 when absent
IndexOf(arr, c) ==
  IF c \in Range(arr) THEN (CHOOSE i \in 1..Len(arr) : arr[i] = c) - 1 ELSE -1

\* template literal `${n}` of a non-negative integer: its decimal digits
DigitChars == <<"0", "1", "2", "3", "4", "5", "6", "7", "8", "9">>

RECURSIVE NumToStr(_)
NumToStr(n) ==
  IF n < 10 THEN <<DigitChars[n + 1]>>
  ELSE NumToStr(n \div 10) \o <<DigitChars[(n % 10) + 1]>>

\* String.replace('viewer-', ''): removes the first occurrence only
RECURSIVE ReplaceViewerPrefix(_)
ReplaceViewerPrefix(str) ==
  IF str = <<>> THEN <<>>
  ELSE IF Head(str) = "viewer-" THEN Tail(str)
  ELSE <<Head(str)>> \o ReplaceViewerPrefix(Tail(str))

IsDigit(t) == t \in Range(DigitChars)

DigitValue(t) == (CHOOSE i \in 1..10 : DigitChars[i] = t) - 1

\* parseInt: the number written by the longest prefix of digits, NaN when none
RECURSIVE ParseDigits(_, _)
ParseDigits(str, acc) ==
  IF str = <<>> \/ ~IsDigit(Head(str)) THEN acc
  ELSE ParseDigits(Tail(str), 10 * acc + DigitValue(Head(str)))

ParseInt(str) ==
  IF str = <<>> \/ ~IsDigit(Head(str)) THEN NaN ELSE ParseDigits(str, 0)

\* truthiness of an optional string
Truthy(str) == str # Undefined /\ str # <<>>

\* viewerArray[index] || null
ArrayAt(arr, index) ==
  IF index >= 0 /\ index < Len(arr) THEN arr[index + 1] ELSE NoConn

\* getViewerId(ws, streamId), with `now` the value of Date.now()
GetViewerId(sock, streamId, now) ==
  IF Has(streamId)
  THEN LET index == IndexOf(streams[streamId].viewers, sock)
       IN  IF index >= 0 THEN <<"viewer-">> \o NumToStr(index)
                         ELSE <<"viewer-">> \o NumToStr(now)
  ELSE <<"viewer-">> \o NumToStr(now)

\* findViewerById(viewers, viewerId)
FindViewerById(viewers, viewerId) ==
  ArrayAt(viewers, ParseInt(ReplaceViewerPrefix(viewerId)))

\* one message put on connection `to`: its other fields are the properties of
\* the object the server serialises; send() on a socket that is no longer open
\* transmits nothing
Msg(to, type, data, viewerId) ==
  [to |-> to, type |-> type, data |-> data, viewerId |-> viewerId]

Send(to, type, data, viewerId) ==
  IF readyState[to] = "open" THEN <<Msg(to, type, data, viewerId)>> ELSE <<>>

\* viewers.forEach(viewer => viewer.send(...)), in set order
RECURSIVE SendAll(_, _, _)
SendAll(viewers, type, data) ==
  IF viewers = <<>> THEN <<>>
  ELSE Send(Head(viewers), type, data, Undefined) \o SendAll(Tail(viewers), type, data)

Event(kind, c, type, streamId, data, target) ==
  [kind |-> kind, conn |-> c, type |-> type, streamId |-> streamId,
   data |-> data, targetViewerId |-> target]

NoRequest == [conn |-> NoConn, viewerId |-> Undefined, to |-> NoConn]

\* the recorded viewer-request is forgotten when its requester joins again or closes
Forget(c) == IF lastRequest.conn = c THEN NoRequest ELSE lastRequest

Record(c, id, to) ==
  IF tracking THEN [conn |-> c, viewerId |-> id, to |-> to] ELSE lastRequest

\* -------------------------------------------------------------------- Init
InitServer ==
  /\ streams = [s \in {} |-> NewSession]
  /\ currentStreamId = [c \in Conns |-> NoStream]
  /\ role = [c \in Conns |-> NoRole]
  /\ readyState = [c \in Conns |-> "pending"]
  /\ lastEvent = Event("init", NoConn, "none", NoStream, NoData, Undefined)
  /\ lastSent = <<>>
  /\ lastRequest = NoRequest
  /\ rejoins = 0

\* the fields of a WebRTCStreamer after its constructor
InitClient ==
  /\ streamerRole = NoRole
  /\ localStream = "none"
  /\ ws = 0
  /\ sockets = [n \in {} |-> 0]
  /\ reconnectAttempts = 0
  /\ reconnectTimeout = 0
  /\ timers = {}
  /\ peerConnection = 0
  /\ pcs = [p \in {} |-> 0]
  /\ clientSent = <<>>
  /\ delays = <<>>
  /\ gaveUp = FALSE
  /\ arrived = 0
  /\ applied = <<>>
  /\ rejected = {}
  /\ dropped = {}
  /\ eligible = {}
  /\ gathered = 0

\* the round-trip time when no candidate pair has succeeded
NoPair == 0 - 1

\* the encodings enableAdaptiveBitrate(sender) sets: highest first, and an
\* encoding without an `active` member is active
Ladder ==
  << [rid |-> "h", maxBitrate |-> 2500000, scaleResolutionDownBy |-> 1, active |-> TRUE],
     [rid |-> "m", maxBitrate |-> 1200000, scaleResolutionDownBy |-> 2, active |-> TRUE],
     [rid |-> "l", maxBitrate |-> 500000, scaleResolutionDownBy |-> 4, active |-> TRUE] >>

\* the fields of an AdaptiveBitrateController after its constructor, on a sender
\* that enableAdaptiveBitrate has configured
InitController ==
  /\ currentQuality = 1
  /\ lastAdjustment = 0
  /\ encodings = Ladder
  /\ pending = <<>>
  /\ clock = 0
  /\ counters = [packetsSent |-> 0, packetsLost |-> 0, bytesSent |-> 0]
  /\ roundTrip = NoPair
  /\ sendRate = 0

\* getRTMPUrl(platform, streamKey): the url is its prefix and the key
GetRTMPUrl(platform, streamKey) ==
  LET urls == [youtube |-> <<"rtmp://a.rtmp.youtube.com/live2/", streamKey>>,
               twitch |-> <<"rtmp://live.twitch.tv/app/", streamKey>>,
               twitter |-> <<"rtmp://fa.periscope.tv:80/live/", streamKey>>]
  IN  IF platform \in DOMAIN urls THEN urls[platform] ELSE <<"rtmp://custom/", streamKey>>

\* initializeDestinations(): the endpoints after the destinations dests, from
\* the endpoints so far
RECURSIVE InitializeDestinations(_, _)
InitializeDestinations(dests, endpoints) ==
  IF dests = <<>> THEN endpoints
  ELSE LET dest == Head(dests)
       IN  InitializeDestinations(
             Tail(dests),
             IF dest.enabled
             THEN MapSet(endpoints, dest.platform, GetRTMPUrl(dest.platform, dest.streamKey))
             ELSE endpoints)

\* the fields of a MultiStreamManager after its constructor
InitManager(dests) ==
  /\ destinations = dests
  /\ rtmpEndpoints = InitializeDestinations(dests, [p \in {} |-> <<>>])
  /\ multiStreams = [p \in {} |-> [tracks |-> "none"]]

\* the platforms of the destinations: two with a url of their own, one without
Platforms == {"youtube", "twitch", "kick"}

\* the lists of destinations a manager may be constructed with
RECURSIVE DestinationLists(_)
DestinationLists(n) ==
  IF n = 0 THEN {<<>>}
  ELSE LET shorter == DestinationLists(n - 1)
       IN  shorter \cup
           {Append(l, [platform |-> p, streamKey |-> "key", enabled |-> e]) :
              l \in {m \in shorter : Len(m) = n - 1}, p \in Platforms, e \in BOOLEAN}

Init ==
  /\ InitServer
  /\ InitClient
  /\ InitController
  /\ InitManager(<<>>)
  /\ tracking = FALSE

InitTracking ==
  /\ InitServer
  /\ InitClient
  /\ InitController
  /\ InitManager(<<>>)
  /\ tracking = TRUE

InitMultiStream ==
  /\ InitServer
  /\ InitClient
  /\ InitController
  /\ \E dests \in DestinationLists(MaxDestinations) : InitManager(dests)
  /\ tracking = FALSE

\* wss.on('connection'): connections are numbered in the order they are accepted;
\* accepting a connection commutes with every other event, so it is taken when
\* the connections before it have joined or closed
Connection(c) ==
  /\ readyState[c] = "pending"
  /\ \A d \in Conns : d < c =>
        /\ readyState[d] # "pending"
        /\ readyState[d] = "open" => currentStreamId[d] # NoStream
  /\ readyState' = [readyState EXCEPT ![c] = "open"]
  /\ lastEvent' = Event("connection", c, "none", NoStream, NoData, Undefined)
  /\ lastSent' = <<>>
  /\ UNCHANGED <<streams, currentStreamId, role, lastRequest, tracking, rejoins>>
  /\ UNCHANGED clientVars
  /\ UNCHANGED mediaVars

\* a stream id leaves a trace in the state while a session or a closure holds it
Traced(s) == Has(s) \/ \E c \in Conns : currentStreamId[c] = s

\* a join is a first join, or one of the MaxRejoins later ones; stream ids that
\* left no trace are interchangeable, so a join to one takes the first of them
MayJoin(c, streamId) ==
  /\ currentStreamId[c] = NoStream \/ rejoins < MaxRejoins
  /\ Traced(streamId) \/
       \A i, j \in 1..Len(StreamOrder) :
         (StreamOrder[j] = streamId /\ i < j) => Traced(StreamOrder[i])

CountJoin(c) == IF currentStreamId[c] = NoStream THEN rejoins ELSE rejoins + 1

\* mutant: a broadcaster that is already registered is kept (first joiner wins)
SetBroadcasterIfAbsent(stream, sock) ==
  IF stream.broadcaster = NoConn THEN [stream EXCEPT !.broadcaster = sock] ELSE stream

\* streams.get(currentStreamId).broadcaster = ws
SetBroadcaster(stream, sock) == [stream EXCEPT !.broadcaster = sock]

\* case 'join-as-broadcaster'
JoinAsBroadcaster(c, streamId) ==
  LET created == IF Has(streamId) THEN streams ELSE MapSet(streams, streamId, NewSession)
      stream == SetBroadcaster(created[streamId], c)
  IN  /\ readyState[c] = "open"
      /\ MayJoin(c, streamId)
      /\ rejoins' = CountJoin(c)
      /\ currentStreamId' = [currentStreamId EXCEPT ![c] = streamId]
      /\ role' = [role EXCEPT ![c] = "broadcaster"]
      /\ streams' = MapSet(created, streamId, stream)
      /\ lastSent' = SendAll(stream.viewers, "broadcaster-available", NoData)
      /\ lastEvent' = Event("message", c, "join-as-broadcaster", streamId, NoData, Undefined)
      /\ lastRequest' = Forget(c)
      /\ UNCHANGED <<readyState, tracking>>
      /\ UNCHANGED clientVars
      /\ UNCHANGED mediaVars

\* mutant: the join of a viewer is announced to every viewer of the session
NotifyEveryViewer(stream, sock) ==
  IF stream.broadcaster # NoConn
  THEN SendAll(stream.viewers, "broadcaster-available", NoData)
  ELSE <<>>

\* if (streams.get(currentStreamId).broadcaster) ws.send(broadcaster-available)
NotifyJoinedViewer(stream, sock) ==
  IF stream.broadcaster # NoConn
  THEN Send(sock, "broadcaster-available", NoData, Undefined)
  ELSE <<>>

\* mutant: a joining viewer is first taken out of the viewer set of the session
\* it joined before
JoinAsViewerLeaving(c, streamId) ==
  LET old == currentStreamId[c]
      left == IF old # NoStream /\ Has(old)
              THEN MapSet(streams, old, [streams[old] EXCEPT !.viewers = SetDelete(@, c)])
              ELSE streams
      created == IF streamId \in DOMAIN left THEN left ELSE MapSet(left, streamId, NewSession)
      stream == [created[streamId] EXCEPT !.viewers = SetAdd(@, c)]
  IN  /\ readyState[c] = "open"
      /\ MayJoin(c, streamId)
      /\ rejoins' = CountJoin(c)
      /\ currentStreamId' = [currentStreamId EXCEPT ![c] = streamId]
      /\ role' = [role EXCEPT ![c] = "viewer"]
      /\ streams' = MapSet(created, streamId, stream)
      /\ lastSent' = NotifyJoinedViewer(stream, c)
      /\ lastEvent' = Event("message", c, "join-as-viewer", streamId, NoData, Undefined)
      /\ lastRequest' = Forget(c)
      /\ UNCHANGED <<readyState, tracking>>
      /\ UNCHANGED clientVars
      /\ UNCHANGED mediaVars

\* case 'join-as-viewer'
JoinAsViewer(c, streamId) ==
  LET created == IF Has(streamId) THEN streams ELSE MapSet(streams, streamId, NewSession)
      stream == [created[streamId] EXCEPT !.viewers = SetAdd(@, c)]
  IN  /\ readyState[c] = "open"
      /\ MayJoin(c, streamId)
      /\ rejoins' = CountJoin(c)
      /\ currentStreamId' = [currentStreamId EXCEPT ![c] = streamId]
      /\ role' = [role EXCEPT ![c] = "viewer"]
      /\ streams' = MapSet(created, streamId, stream)
      /\ lastSent' = NotifyJoinedViewer(stream, c)
      /\ lastEvent' = Event("message", c, "join-as-viewer", streamId, NoData, Undefined)
      /\ lastRequest' = Forget(c)
      /\ UNCHANGED <<readyState, tracking>>
      /\ UNCHANGED clientVars
      /\ UNCHANGED mediaVars

\* case 'request-stream'
RequestStream(c, now) ==
  LET sid == currentStreamId[c]
      forwards == /\ sid # NoStream /\ Has(sid)
                  /\ streams[sid].broadcaster # NoConn
                  /\ readyState[streams[sid].broadcaster] = "open"
      id == GetViewerId(c, sid, now)
  IN  /\ readyState[c] = "open"
      /\ lastEvent' = Event("message", c, "request-stream", sid, NoData, Undefined)
      /\ IF forwards
         THEN /\ lastSent' = Send(streams[sid].broadcaster, "viewer-request", NoData, id)
              /\ lastRequest' = Record(c, id, streams[sid].broadcaster)
         ELSE /\ lastSent' = <<>>
              /\ UNCHANGED lastRequest
      /\ UNCHANGED <<streams, currentStreamId, role, readyState, tracking, rejoins>>
      /\ UNCHANGED clientVars
      /\ UNCHANGED mediaVars

\* case 'offer' / 'answer' / 'ice-candidate', role === 'broadcaster'
RelayFromBroadcaster(streamData, type, data, target) ==
  LET targetViewer == IF Truthy(target)
                      THEN FindViewerById(streamData.viewers, target)
                      ELSE NoConn
  IN  IF targetViewer # NoConn
      THEN Send(targetViewer, type, data, Undefined)
      ELSE SendAll(streamData.viewers, type, data)

\* mutant: a viewer's message is fanned out to the viewers of its session
RelayFromViewerToViewers(c, streamData, type, data, id) ==
  SendAll(streamData.viewers, type, data)

\* case 'offer' / 'answer' / 'ice-candidate', role === 'viewer'
RelayFromViewer(c, streamData, type, data, id) ==
  IF streamData.broadcaster # NoConn /\ readyState[streamData.broadcaster] = "open"
  THEN Send(streamData.broadcaster, type, data, id)
  ELSE <<>>

\* mutant: a message for a session that is not in the registry creates it
RelayCreatingSession(c, type, data, target, now) ==
  LET sid == currentStreamId[c]
      id == GetViewerId(c, sid, now)
  IN  /\ readyState[c] = "open"
      /\ role[c] # "broadcaster" => target = Undefined
      /\ lastEvent' = Event("message", c, type, sid, data, target)
      /\ IF sid # NoStream /\ Has(sid)
         THEN /\ IF role[c] = "broadcaster"
                 THEN lastSent' = RelayFromBroadcaster(streams[sid], type, data, target)
                 ELSE IF role[c] = "viewer"
                 THEN lastSent' = RelayFromViewer(c, streams[sid], type, data, id)
                 ELSE lastSent' = <<>>
              /\ UNCHANGED streams
         ELSE /\ lastSent' = <<>>
              /\ streams' = IF sid # NoStream THEN MapSet(streams, sid, NewSession) ELSE streams
      /\ UNCHANGED <<currentStreamId, role, readyState, lastRequest, tracking, rejoins>>
      /\ UNCHANGED clientVars
      /\ UNCHANGED mediaVars

\* case 'offer' / 'answer' / 'ice-candidate'
Relay(c, type, data, target, now) ==
  LET sid == currentStreamId[c]
      id == GetViewerId(c, sid, now)
  IN  /\ readyState[c] = "open"
      \* targetViewerId is read in the broadcaster branch alone
      /\ role[c] # "broadcaster" => target = Undefined
      /\ lastEvent' = Event("message", c, type, sid, data, target)
      /\ IF sid # NoStream /\ Has(sid)
         THEN IF role[c] = "broadcaster"
              THEN lastSent' = RelayFromBroadcaster(streams[sid], type, data, target)
              ELSE IF role[c] = "viewer"
              THEN lastSent' = RelayFromViewer(c, streams[sid], type, data, id)
              ELSE lastSent' = <<>>
         ELSE lastSent' = <<>>
      /\ UNCHANGED <<streams, currentStreamId, role, readyState, lastRequest, tracking, rejoins>>
      /\ UNCHANGED clientVars
      /\ UNCHANGED mediaVars

\* mutant: the sender of a message that does not parse is sent an error
OnParseErrorReply(c) == Send(c, "error", NoData, Undefined)

\* catch (error) { console.error(...) }: nothing is sent
OnParseError(c) == <<>>

\* ws.on('message') with a payload JSON.parse throws on: the switch is not reached
MalformedMessage(c) ==
  /\ readyState[c] = "open"
  /\ lastEvent' = Event("malformed", c, "none", currentStreamId[c], NoData, Undefined)
  /\ lastSent' = OnParseError(c)
  /\ UNCHANGED <<streams, currentStreamId, role, readyState, lastRequest, tracking, rejoins>>
  /\ UNCHANGED clientVars
  /\ UNCHANGED mediaVars

\* mutant: a closing viewer is left in the viewer set
AfterCloseKeepingViewer(c, streamData) ==
  IF role[c] = "broadcaster" THEN [streamData EXCEPT !.broadcaster = NoConn]
  ELSE streamData

\* the session after ws.on('close') has run its role branch
AfterClose(c, streamData) ==
  IF role[c] = "broadcaster" THEN [streamData EXCEPT !.broadcaster = NoConn]
  ELSE IF role[c] = "viewer" THEN [streamData EXCEPT !.viewers = SetDelete(@, c)]
  ELSE streamData

\* mutant: the negation of the broadcaster test is missing
IsEmptyWithBroadcaster(streamData) ==
  streamData.broadcaster # NoConn /\ Len(streamData.viewers) = 0

\* !streamData.broadcaster && streamData.viewers.size === 0
IsEmpty(streamData) == streamData.broadcaster = NoConn /\ Len(streamData.viewers) = 0

\* ws.on('close'): the socket is CLOSED when the handler runs, so it is not
\* among the viewers whose readyState is OPEN
Close(c) ==
  LET sid == currentStreamId[c]
      closedState == [readyState EXCEPT ![c] = "closed"]
  IN  /\ readyState[c] = "open"
      /\ readyState' = closedState
      /\ lastEvent' = Event("close", c, "none", sid, NoData, Undefined)
      /\ IF sid # NoStream /\ Has(sid)
         THEN LET streamData == AfterClose(c, streams[sid])
              IN  /\ lastSent' =
                       IF role[c] = "broadcaster"
                       THEN SelectSeq(SendAll(streamData.viewers, "broadcaster-left", NoData),
                                      LAMBDA m : m.to # c)
                       ELSE <<>>
                  /\ streams' =
                       IF IsEmpty(streamData)
                       THEN MapDelete(streams, sid)
                       ELSE MapSet(streams, sid, streamData)
         ELSE /\ lastSent' = <<>>
              /\ UNCHANGED streams
      /\ lastRequest' = Forget(c)
      \* the closure variables of a closed connection are never read again
      /\ currentStreamId' = [currentStreamId EXCEPT ![c] = NoStream]
      /\ role' = [role EXCEPT ![c] = NoRole]
      /\ UNCHANGED <<tracking, rejoins>>
      /\ UNCHANGED clientVars
      /\ UNCHANGED mediaVars

\* targetViewerId values a sender may put in a message: none, one that is not
\* an id, and the ids of the viewers that join next to one broadcaster
TargetIds ==
  {Undefined, <<"x">>}
    \cup {<<"viewer-">> \o NumToStr(i) : i \in 0..(Cardinality(Conns) - 2)}

Next ==
  \/ \E c \in Conns : Connection(c)
  \/ \E c \in Conns, s \in StreamIds : JoinAsBroadcaster(c, s)
  \/ \E c \in Conns, s \in StreamIds : JoinAsViewer(c, s)
  \/ \E c \in Conns, now \in Timestamps : RequestStream(c, now)
  \/ \E c \in Conns, in \in RelayInputs, target \in TargetIds, now \in Timestamps :
        Relay(c, in[1], in[2], target, now)
  \/ \E c \in Conns : MalformedMessage(c)
  \/ \E c \in Conns : Close(c)

Spec == Init /\ [][Next]_vars

\* the same relay, with the latest viewer-request remembered
TrackingSpec == InitTracking /\ [][Next]_vars

\* ================================================================ the client
\* WebRTCStreamer (src/lib/bonding-curves.ts): one streamer, its signaling
\* sockets, its reconnect timers and its peer connections. The events of the
\* browser (socket open/error/close, timers, operations of a peer connection
\* completing) and the messages of the relay arrive in any order.

Smallest(S) == CHOOSE n \in S : \A m \in S : n <= m

FreeIds(map, max) == (1..max) \ DOMAIN map

\* a closed socket stays on record only while this.ws refers to it
Collect(socks, ref) ==
  [n \in {m \in DOMAIN socks : socks[m].state # "closed" \/ m = ref} |-> socks[n]]

\* a peer connection no field refers to stays on record only while operations
\* are pending on it
CollectPcs(all, ref) ==
  [p \in {q \in DOMAIN all : q = ref \/ all[q].chain # <<>>} |-> all[p]]

ClientMsg(type, data, target) == [type |-> type, data |-> data, targetViewerId |-> target]

\* sendMessage(message), with this.ws = sock among the sockets socks
SendMessage(sock, socks, type, data, target) ==
  IF sock # 0 /\ socks[sock].state = "open"
  THEN <<ClientMsg(type, data, target)>>
  ELSE <<>>

\* new RTCPeerConnection(config)
NewPc == [signalingState |-> "stable", remote |-> FALSE, chain |-> <<>>]

\* peerConnection.close(): the operations pending on a closed connection never
\* settle, so the handlers awaiting them never resume
ClosePc(all, p) == [q \in DOMAIN all \ {p} |-> all[q]]

\* mutant: the delay does not grow with the attempt
ReconnectDelayConstant(attempts) == BaseDelay

\* 2000 * this.reconnectAttempts
ReconnectDelay(attempts) == BaseDelay * attempts

\* a socket whose promise has settled: no caller awaits it any more
Settled(state) == [state |-> state, origin |-> "none"]

\* connectWebSocket(): this.ws = new WebSocket(url), whose handlers remember the
\* caller that awaits the promise
ConnectWebSocket(origin) ==
  /\ FreeIds(sockets, MaxSockets) # {}
  /\ LET n == Smallest(FreeIds(sockets, MaxSockets))
     IN  /\ ws' = n
         /\ sockets' = Collect([m \in DOMAIN sockets \cup {n} |->
                                  IF m = n THEN [state |-> "connecting", origin |-> origin]
                                  ELSE sockets[m]], n)

\* mutant: a reconnect is scheduled whether or not a role is set
MayReconnectWithoutRole == reconnectAttempts < maxReconnectAttempts

\* this.reconnectAttempts < this.maxReconnectAttempts && this.role
MayReconnect == reconnectAttempts < maxReconnectAttempts /\ streamerRole # NoRole

\* handleDisconnect()
HandleDisconnect ==
  IF MayReconnect
  THEN /\ (1..MaxTimers) \ timers # {}
       /\ LET t == Smallest((1..MaxTimers) \ timers)
              delay == ReconnectDelay(reconnectAttempts + 1)
          IN  /\ reconnectAttempts' = reconnectAttempts + 1
              /\ timers' = timers \cup {t}
              /\ reconnectTimeout' = t
              /\ delays' = Append(delays, delay)
              /\ UNCHANGED gaveUp
  ELSE /\ gaveUp' = (gaveUp \/ streamerRole # NoRole)
       /\ UNCHANGED <<reconnectAttempts, timers, reconnectTimeout, delays>>

candidateVars == <<arrived, applied, rejected, dropped, eligible, gathered>>

peerVars == <<peerConnection, pcs, candidateVars>>

sessionVars == <<streamerRole, localStream, ws, sockets, reconnectAttempts,
                 reconnectTimeout, timers, delays, gaveUp>>

\* startBroadcast(stream), stream with or without tracks
StartBroadcast(stream) ==
  /\ localStream' = stream
  /\ streamerRole' = "broadcaster"
  /\ IF stream = "empty"
     THEN UNCHANGED <<ws, sockets>>
     ELSE ConnectWebSocket("startBroadcast")
  /\ clientSent' = <<>>
  /\ UNCHANGED <<reconnectAttempts, reconnectTimeout, timers, delays, gaveUp>>
  /\ UNCHANGED peerVars
  /\ UNCHANGED serverVars
  /\ UNCHANGED mediaVars

\* startViewing(onStream), up to the await
StartViewing ==
  /\ streamerRole' = "viewer"
  /\ ConnectWebSocket("startViewing")
  /\ clientSent' = <<>>
  /\ UNCHANGED <<localStream, reconnectAttempts, reconnectTimeout, timers, delays, gaveUp>>
  /\ UNCHANGED peerVars
  /\ UNCHANGED serverVars
  /\ UNCHANGED mediaVars

\* mutant: the attempt count is reset by the open of a reconnect socket alone
SocketOpenKeepingCount(n) ==
  /\ n \in DOMAIN sockets /\ sockets[n].state = "connecting"
  /\ LET opened == [sockets EXCEPT ![n] = Settled("open")]
         origin == sockets[n].origin
     IN  /\ sockets' = opened
         /\ reconnectAttempts' = IF origin = "reconnect" THEN 0 ELSE reconnectAttempts
         /\ delays' = <<>>
         /\ gaveUp' = FALSE
         /\ IF origin = "startViewing"
            THEN \* this.createPeerConnection()
                 /\ FreeIds(pcs, MaxPcs) # {}
                 /\ LET p == Smallest(FreeIds(pcs, MaxPcs))
                    IN  /\ peerConnection' = p
                        /\ pcs' = CollectPcs([q \in DOMAIN pcs \cup {p} |->
                                                IF q = p THEN NewPc ELSE pcs[q]], p)
                 /\ clientSent' = SendMessage(ws, opened, "join-as-viewer", NoData, Undefined)
            ELSE /\ UNCHANGED <<peerConnection, pcs>>
                 /\ clientSent' =
                      IF origin = "startBroadcast"
                      THEN SendMessage(ws, opened, "join-as-broadcaster", NoData, Undefined)
                      ELSE IF streamerRole = "broadcaster" /\ localStream # "none"
                      THEN SendMessage(ws, opened, "join-as-broadcaster", NoData, Undefined)
                      ELSE IF streamerRole = "viewer"
                      THEN SendMessage(ws, opened, "join-as-viewer", NoData, Undefined)
                      ELSE <<>>
  /\ UNCHANGED <<streamerRole, localStream, ws, reconnectTimeout, timers>>
  /\ UNCHANGED candidateVars
  /\ UNCHANGED serverVars
  /\ UNCHANGED mediaVars

\* ws.onopen of socket n, and the caller that awaited connectWebSocket()
SocketOpen(n) ==
  /\ n \in DOMAIN sockets /\ sockets[n].state = "connecting"
  /\ LET opened == [sockets EXCEPT ![n] = Settled("open")]
         origin == sockets[n].origin
     IN  /\ sockets' = opened
         /\ reconnectAttempts' = 0
         /\ delays' = <<>>
         /\ gaveUp' = FALSE
         /\ IF origin = "startViewing"
            THEN \* this.createPeerConnection()
                 /\ FreeIds(pcs, MaxPcs) # {}
                 /\ LET p == Smallest(FreeIds(pcs, MaxPcs))
                    IN  /\ peerConnection' = p
                        /\ pcs' = CollectPcs([q \in DOMAIN pcs \cup {p} |->
                                                IF q = p THEN NewPc ELSE pcs[q]], p)
                 /\ clientSent' = SendMessage(ws, opened, "join-as-viewer", NoData, Undefined)
            ELSE /\ UNCHANGED <<peerConnection, pcs>>
                 /\ clientSent' =
                      IF origin = "startBroadcast"
                      THEN SendMessage(ws, opened, "join-as-broadcaster", NoData, Undefined)
                      ELSE IF streamerRole = "broadcaster" /\ localStream # "none"
                      THEN SendMessage(ws, opened, "join-as-broadcaster", NoData, Undefined)
                      ELSE IF streamerRole = "viewer"
                      THEN SendMessage(ws, opened, "join-as-viewer", NoData, Undefined)
                      ELSE <<>>
  /\ UNCHANGED <<streamerRole, localStream, ws, reconnectTimeout, timers>>
  /\ UNCHANGED candidateVars
  /\ UNCHANGED serverVars
  /\ UNCHANGED mediaVars

\* ws.onerror then ws.onclose of a socket that failed to connect: the awaiting
\* caller logs the rejection, onclose runs handleDisconnect()
SocketError(n) ==
  /\ n \in DOMAIN sockets /\ sockets[n].state = "connecting"
  /\ sockets' = Collect([sockets EXCEPT ![n].state = "closed"], ws)
  /\ HandleDisconnect
  /\ clientSent' = <<>>
  /\ UNCHANGED <<streamerRole, localStream, ws>>
  /\ UNCHANGED peerVars
  /\ UNCHANGED serverVars
  /\ UNCHANGED mediaVars

\* ws.onclose of a socket that was open, or that close() has closed
SocketClose(n) ==
  /\ n \in DOMAIN sockets /\ sockets[n].state \in {"open", "closing"}
  /\ sockets' = Collect([sockets EXCEPT ![n].state = "closed"], ws)
  /\ HandleDisconnect
  /\ clientSent' = <<>>
  /\ UNCHANGED <<streamerRole, localStream, ws>>
  /\ UNCHANGED peerVars
  /\ UNCHANGED serverVars
  /\ UNCHANGED mediaVars

StaleHandle == 0 - 1

\* the callback of setTimeout in handleDisconnect(), up to the await
TimerFire(t) ==
  /\ t \in timers
  /\ timers' = timers \ {t}
  /\ reconnectTimeout' = IF reconnectTimeout = t THEN StaleHandle ELSE reconnectTimeout
  /\ ConnectWebSocket("reconnect")
  /\ clientSent' = <<>>
  /\ UNCHANGED <<streamerRole, localStream, reconnectAttempts, delays, gaveUp>>
  /\ UNCHANGED peerVars
  /\ UNCHANGED serverVars
  /\ UNCHANGED mediaVars

\* stopBroadcast(): the peer connections it leaves
StopBroadcastPcs == CollectPcs(ClosePc(pcs, peerConnection), 0)

\* close()
CloseStreamer ==
  /\ timers' = timers \ {reconnectTimeout}
  /\ reconnectTimeout' = IF reconnectTimeout = 0 THEN 0 ELSE StaleHandle
  /\ pcs' = StopBroadcastPcs
  /\ peerConnection' = 0
  /\ sockets' = Collect([n \in DOMAIN sockets |->
                           IF n = ws /\ sockets[n].state \in {"connecting", "open"}
                           THEN Settled("closing")
                           ELSE sockets[n]], 0)
  /\ ws' = 0
  /\ streamerRole' = NoRole
  /\ clientSent' = <<>>
  /\ UNCHANGED <<localStream, reconnectAttempts, delays, gaveUp>>
  /\ UNCHANGED candidateVars
  /\ UNCHANGED serverVars
  /\ UNCHANGED mediaVars

\* ------------------------------------------------------ peer connections
\* viewer ids a viewer-request carries
ViewerIds == {<<"viewer-", "0">>, <<"viewer-", "1">>}

NoViewer == Undefined

\* an operation on a peer connection's operations chain, with what its awaiting
\* handler holds: the viewer an offer is for, the candidate being added
Op(kind, viewerId, candidate) == [kind |-> kind, viewerId |-> viewerId, candidate |-> candidate]

\* the operation is put at the end of the chain of connection p
Enqueue(all, p, op) == [all EXCEPT ![p].chain = Append(@, op)]

\* mutant: a candidate is taken only once the negotiation has completed
SucceedsWhenStable(pc, op) ==
  CASE op.kind = "createOffer" -> TRUE
    [] op.kind = "setLocalOffer" -> pc.signalingState \in {"stable", "have-local-offer"}
    [] op.kind = "setRemoteOffer" -> TRUE
    [] op.kind = "createAnswer" -> pc.signalingState = "have-remote-offer"
    [] op.kind = "setLocalAnswer" -> pc.signalingState = "have-remote-offer"
    [] op.kind = "setRemoteAnswer" -> pc.signalingState = "have-local-offer"
    [] op.kind = "addIceCandidate" -> pc.remote /\ pc.signalingState = "stable"

\* the descriptions an operation is valid for, by the connection's signaling state
Succeeds(pc, op) ==
  CASE op.kind = "createOffer" -> TRUE
    [] op.kind = "setLocalOffer" -> pc.signalingState \in {"stable", "have-local-offer"}
    [] op.kind = "setRemoteOffer" -> TRUE
    [] op.kind = "createAnswer" -> pc.signalingState = "have-remote-offer"
    [] op.kind = "setLocalAnswer" -> pc.signalingState = "have-remote-offer"
    [] op.kind = "setRemoteAnswer" -> pc.signalingState = "have-local-offer"
    [] op.kind = "addIceCandidate" -> pc.remote

\* the connection after the operation has succeeded
Effect(pc, op) ==
  CASE op.kind = "setLocalOffer" -> [pc EXCEPT !.signalingState = "have-local-offer"]
    [] op.kind = "setRemoteOffer" ->
         [pc EXCEPT !.signalingState = "have-remote-offer", !.remote = TRUE]
    [] op.kind = "setLocalAnswer" -> [pc EXCEPT !.signalingState = "stable"]
    [] op.kind = "setRemoteAnswer" ->
         [pc EXCEPT !.signalingState = "stable", !.remote = TRUE]
    [] OTHER -> pc

\* mutant: the answer is not created before the local description is set
FollowingWithoutCreateAnswer(op) ==
  CASE op.kind = "createOffer" -> "setLocalOffer"
    [] op.kind = "setRemoteOffer" -> "setLocalAnswer"
    [] op.kind = "createAnswer" -> "setLocalAnswer"
    [] OTHER -> "none"

\* the operation the awaiting handler calls next, "none" when it calls none
Following(op) ==
  CASE op.kind = "createOffer" -> "setLocalOffer"
    [] op.kind = "setRemoteOffer" -> "createAnswer"
    [] op.kind = "createAnswer" -> "setLocalAnswer"
    [] OTHER -> "none"

\* the connection the handler calls it on: createOfferForViewer holds pc in a
\* constant, handleOffer reads this.peerConnection again after every await
FollowingOn(p, op) == IF op.kind = "createOffer" THEN p ELSE peerConnection

\* the message the awaiting handler sends once the operation has succeeded
Announces(op) ==
  CASE op.kind = "setLocalOffer" -> SendMessage(ws, sockets, "offer", "sdp1", op.viewerId)
    [] op.kind = "setLocalAnswer" -> SendMessage(ws, sockets, "answer", "sdp2", Undefined)
    [] OTHER -> <<>>

\* the first operation of the chain of connection p settles and the handler
\* awaiting it resumes
PcStep(p) ==
  /\ p \in DOMAIN pcs /\ pcs[p].chain # <<>>
  /\ LET op == Head(pcs[p].chain)
         ok == Succeeds(pcs[p], op)
         after == [pcs EXCEPT ![p] = [(IF ok THEN Effect(@, op) ELSE @)
                                        EXCEPT !.chain = Tail(@)]]
         on == FollowingOn(p, op)
     IN  /\ pcs' = CollectPcs(
                     IF ok /\ Following(op) # "none" /\ on # 0
                     THEN Enqueue(after, on, Op(Following(op), op.viewerId, 0))
                     ELSE after, peerConnection)
         /\ clientSent' = IF ok THEN Announces(op) ELSE <<>>
         /\ applied' = IF ok /\ op.kind = "addIceCandidate"
                       THEN Append(applied, op.candidate) ELSE applied
         /\ rejected' = IF ~ok /\ op.kind = "addIceCandidate"
                        THEN rejected \cup {op.candidate} ELSE rejected
  /\ UNCHANGED <<peerConnection, arrived, dropped, eligible, gathered>>
  /\ UNCHANGED sessionVars
  /\ UNCHANGED serverVars
  /\ UNCHANGED mediaVars

\* the relay's messages reach the streamer through any socket that is open
Listening == \E n \in DOMAIN sockets : sockets[n].state = "open"

\* case 'broadcaster-available'
ReceiveBroadcasterAvailable ==
  /\ Listening
  /\ clientSent' = SendMessage(ws, sockets, "request-stream", NoData, Undefined)
  /\ UNCHANGED peerVars
  /\ UNCHANGED sessionVars
  /\ UNCHANGED serverVars
  /\ UNCHANGED mediaVars

\* case 'broadcaster-left'
ReceiveBroadcasterLeft ==
  /\ Listening
  /\ pcs' = CollectPcs(ClosePc(pcs, peerConnection), 0)
  /\ peerConnection' = 0
  /\ clientSent' = <<>>
  /\ UNCHANGED candidateVars
  /\ UNCHANGED sessionVars
  /\ UNCHANGED serverVars
  /\ UNCHANGED mediaVars

\* case 'viewer-request', and createOfferForViewer(viewerId) up to its first await
ReceiveViewerRequest(viewerId) ==
  /\ Listening
  /\ IF streamerRole = "broadcaster" /\ localStream # "none"
     THEN LET closed == CollectPcs(ClosePc(pcs, peerConnection), 0)
          IN  /\ FreeIds(closed, MaxPcs) # {}
              /\ LET p == Smallest(FreeIds(closed, MaxPcs))
                 IN  /\ peerConnection' = p
                     /\ pcs' = [q \in DOMAIN closed \cup {p} |->
                                  IF q = p
                                  THEN [NewPc EXCEPT !.chain = <<Op("createOffer", viewerId, 0)>>]
                                  ELSE closed[q]]
     ELSE UNCHANGED <<peerConnection, pcs>>
  /\ clientSent' = <<>>
  /\ UNCHANGED candidateVars
  /\ UNCHANGED sessionVars
  /\ UNCHANGED serverVars
  /\ UNCHANGED mediaVars

\* case 'offer', and handleOffer(offer) up to its first await
ReceiveOffer ==
  /\ Listening
  /\ IF peerConnection = 0
     THEN /\ FreeIds(pcs, MaxPcs) # {}
          /\ LET p == Smallest(FreeIds(pcs, MaxPcs))
             IN  /\ peerConnection' = p
                 /\ pcs' = [q \in DOMAIN pcs \cup {p} |->
                              IF q = p
                              THEN [NewPc EXCEPT !.chain = <<Op("setRemoteOffer", NoViewer, 0)>>]
                              ELSE pcs[q]]
     ELSE /\ Len(pcs[peerConnection].chain) < MaxChain
          /\ pcs' = Enqueue(pcs, peerConnection, Op("setRemoteOffer", NoViewer, 0))
          /\ UNCHANGED peerConnection
  /\ clientSent' = <<>>
  /\ UNCHANGED candidateVars
  /\ UNCHANGED sessionVars
  /\ UNCHANGED serverVars
  /\ UNCHANGED mediaVars

\* case 'answer', and handleAnswer(answer) up to its await
ReceiveAnswer ==
  /\ Listening
  /\ IF peerConnection = 0
     THEN UNCHANGED pcs
     ELSE /\ Len(pcs[peerConnection].chain) < MaxChain
          /\ pcs' = Enqueue(pcs, peerConnection, Op("setRemoteAnswer", NoViewer, 0))
  /\ clientSent' = <<>>
  /\ UNCHANGED peerConnection
  /\ UNCHANGED candidateVars
  /\ UNCHANGED sessionVars
  /\ UNCHANGED serverVars
  /\ UNCHANGED mediaVars

\* case 'ice-candidate', and handleIceCandidate(candidate) up to its await; the
\* candidates are numbered in the order they arrive
ReceiveIceCandidate ==
  /\ Listening
  /\ arrived < MaxCandidates
  /\ arrived' = arrived + 1
  /\ IF peerConnection = 0
     THEN /\ dropped' = dropped \cup {arrived + 1}
          /\ UNCHANGED <<pcs, eligible>>
     ELSE /\ Len(pcs[peerConnection].chain) < MaxChain
          /\ pcs' = Enqueue(pcs, peerConnection, Op("addIceCandidate", NoViewer, arrived + 1))
          /\ eligible' = IF pcs[peerConnection].remote
                         THEN eligible \cup {arrived + 1} ELSE eligible
          /\ UNCHANGED dropped
  /\ clientSent' = <<>>
  /\ UNCHANGED <<peerConnection, applied, rejected, gathered>>
  /\ UNCHANGED sessionVars
  /\ UNCHANGED serverVars
  /\ UNCHANGED mediaVars

\* stopBroadcast()
StopBroadcast ==
  /\ pcs' = StopBroadcastPcs
  /\ peerConnection' = 0
  /\ clientSent' = <<>>
  /\ UNCHANGED candidateVars
  /\ UNCHANGED sessionVars
  /\ UNCHANGED serverVars
  /\ UNCHANGED mediaVars

\* no socket has been created yet
Idle == DOMAIN sockets = {}

PeerNext ==
  \/ \E stream \in {"empty", "live"} : Idle /\ StartBroadcast(stream)
  \/ Idle /\ StartViewing
  \/ \E n \in 1..MaxSockets : SocketOpen(n)
  \/ \E p \in 1..MaxPcs : PcStep(p)
  \/ ReceiveBroadcasterAvailable
  \/ ReceiveBroadcasterLeft
  \/ \E viewerId \in ViewerIds : ReceiveViewerRequest(viewerId)
  \/ ReceiveOffer
  \/ ReceiveAnswer
  \/ ReceiveIceCandidate
  \/ StopBroadcast
  \/ CloseStreamer

\* the peer connections of one streamer that is started once and whose
\* transport does not fail
PeerSpec == Init /\ [][PeerNext]_vars

\* a local description has been set on the connection, so it gathers candidates
HasLocal(pc) ==
  pc.signalingState = "have-local-offer" \/ (pc.signalingState = "stable" /\ pc.remote)

\* peerConnection.onicecandidate of connection p, with a candidate
LocalIceCandidate(p) ==
  /\ p \in DOMAIN pcs /\ HasLocal(pcs[p])
  /\ gathered < MaxGathered
  /\ gathered' = gathered + 1
  /\ clientSent' = SendMessage(ws, sockets, "ice-candidate", "cand1", Undefined)
  /\ UNCHANGED <<peerConnection, pcs, arrived, applied, rejected, dropped, eligible>>
  /\ UNCHANGED sessionVars
  /\ UNCHANGED serverVars
  /\ UNCHANGED mediaVars

GatheringNext ==
  \/ \E stream \in {"empty", "live"} : Idle /\ StartBroadcast(stream)
  \/ Idle /\ StartViewing
  \/ \E n \in 1..MaxSockets : SocketOpen(n)
  \/ \E n \in 1..MaxSockets : SocketError(n)
  \/ \E n \in 1..MaxSockets : SocketClose(n)
  \/ \E t \in 1..MaxTimers : TimerFire(t)
  \/ \E p \in 1..MaxPcs : PcStep(p)
  \/ \E viewerId \in ViewerIds : ReceiveViewerRequest(viewerId)
  \/ ReceiveOffer
  \/ ReceiveAnswer
  \/ \E p \in 1..MaxPcs : LocalIceCandidate(p)

\* the peer connections of one streamer that is started once, over a transport
\* that fails and reconnects
GatheringSpec == Init /\ [][GatheringNext]_vars

NegotiationNext ==
  \/ \E stream \in {"empty", "live"} : Idle /\ StartBroadcast(stream)
  \/ Idle /\ StartViewing
  \/ \E n \in 1..MaxSockets : SocketOpen(n)
  \/ \E p \in 1..MaxPcs : PcStep(p)
  \/ streamerRole = "viewer" /\ ReceiveBroadcasterAvailable
  \/ \E viewerId \in ViewerIds :
       streamerRole = "broadcaster" /\ ReceiveViewerRequest(viewerId)
  \/ streamerRole = "viewer" /\ ReceiveOffer
  \/ streamerRole = "broadcaster" /\ ReceiveAnswer
  \/ ReceiveIceCandidate

\* a pending operation of a peer connection that is not closed settles in the end
OperationsSettle == WF_vars(\E p \in 1..MaxPcs : PcStep(p))

\* one streamer that is started once and never closed, over a transport that
\* does not fail; the relay hands broadcaster-available and offers to viewers,
\* viewer-requests and answers to the broadcaster, in any order, and every
\* pending operation settles
NegotiationSpec == Init /\ [][NegotiationNext]_vars /\ OperationsSettle

RestartNext ==
  \/ \E stream \in {"empty", "live"} : StartBroadcast(stream)
  \/ StartViewing
  \/ \E n \in 1..MaxSockets : SocketOpen(n)
  \/ \E p \in 1..MaxPcs : PcStep(p)
  \/ ReceiveBroadcasterLeft
  \/ \E viewerId \in ViewerIds : ReceiveViewerRequest(viewerId)
  \/ ReceiveOffer
  \/ ReceiveAnswer
  \/ StopBroadcast
  \/ CloseStreamer

\* the peer connections of one streamer that may be started again, over a
\* transport that does not fail
RestartSpec == Init /\ [][RestartNext]_vars

ReconnectNext ==
  \/ \E stream \in {"empty", "live"} : StartBroadcast(stream)
  \/ StartViewing
  \/ \E n \in 1..MaxSockets : SocketOpen(n)
  \/ \E n \in 1..MaxSockets : SocketError(n)
  \/ \E n \in 1..MaxSockets : SocketClose(n)
  \/ \E t \in 1..MaxTimers : TimerFire(t)
  \/ CloseStreamer

\* the session coordinator of one streamer
ReconnectSpec == Init /\ [][ReconnectNext]_vars

\* no socket of the streamer is alive and no reconnect timer is pending
Quiet ==
  /\ timers = {}
  /\ \A n \in DOMAIN sockets : sockets[n].state = "closed"

ManualNext ==
  \/ \E stream \in {"empty", "live"} : Quiet /\ StartBroadcast(stream)
  \/ Quiet /\ StartViewing
  \/ \E n \in 1..MaxSockets : SocketOpen(n)
  \/ \E n \in 1..MaxSockets : SocketError(n)
  \/ \E n \in 1..MaxSockets : SocketClose(n)
  \/ \E t \in 1..MaxTimers : TimerFire(t)

\* the session coordinator of one streamer that is started, and started again by
\* hand, when nothing of an earlier start is left under way
ManualSpec == Init /\ [][ManualNext]_vars

\* ============================================ the adaptive bitrate controller
\* AdaptiveBitrateController and the sender it controls
\* (src/lib/streaming/webrtc-manager.ts). Times are in milliseconds; the clock
\* advances by ticks of half the adjustment threshold, and during every tick
\* the sender sends 100 packets.

Tick == adjustmentThreshold \div 2

\* what the sender may send and lose during one tick, and the round-trip times
\* the candidate pair may have
ByteDeltas == {500000, 1000000}
LostDeltas == {0, 10}
RoundTrips == {NoPair, 20, 100, 300}

\* a quotient of two numbers, kept exact
Quotient(num, den) == [num |-> num, den |-> den]

\* q > k and q < k for a quotient q; a quotient with denominator 0 is Infinity
Above(q, k) == q.num > k * q.den
Below(q, k) == q.num < k * q.den

\* the RTCStatsReport getStats() resolves to: currentRoundTripTime is in seconds
GetStats ==
  << [type |-> "outbound-rtp", packetsSent |-> counters.packetsSent,
      packetsLost |-> counters.packetsLost, bytesSent |-> counters.bytesSent] >>
  \o (IF roundTrip = NoPair THEN <<>>
      ELSE << [type |-> "candidate-pair", state |-> "succeeded",
               currentRoundTripTime |-> Quotient(roundTrip, 1000)] >>)

\* (report.packetsLost / report.packetsSent) * 100 || 0: NaN (0 / 0) becomes 0
PacketLoss(report) ==
  IF report.packetsSent = 0 /\ report.packetsLost = 0 THEN Quotient(0, 1)
  ELSE Quotient(report.packetsLost * 100, report.packetsSent)

\* report.currentRoundTripTime * 1000 || 0
RoundTripMs(report) ==
  (report.currentRoundTripTime.num * 1000) \div report.currentRoundTripTime.den

\* stats.forEach(report => ...) of analyzeStats, from the metrics m so far
RECURSIVE AnalyzeFrom(_, _)
AnalyzeFrom(stats, m) ==
  IF stats = <<>> THEN m
  ELSE LET report == Head(stats)
           loss == IF report.type = "outbound-rtp"
                   THEN [m EXCEPT !.packetLoss = PacketLoss(report)] ELSE m
           rtt == IF report.type = "candidate-pair" /\ report.state = "succeeded"
                  THEN [loss EXCEPT !.rtt = RoundTripMs(report)] ELSE loss
           bandwidth == IF report.type = "outbound-rtp"
                        THEN [rtt EXCEPT !.bandwidth = report.bytesSent] ELSE rtt
       IN  AnalyzeFrom(Tail(stats), bandwidth)

\* analyzeStats(stats)
AnalyzeStats(stats) ==
  AnalyzeFrom(stats, [packetLoss |-> Quotient(0, 1), rtt |-> 0, bandwidth |-> 0])

\* now - this.lastAdjustment < this.adjustmentThreshold
Suppressed(now) == now - lastAdjustment < adjustmentThreshold

\* the parameters applyQualitySettings() hands to setParameters for quality q
QualitySettings(parameters, q) ==
  [i \in 1..Len(parameters) |-> [parameters[i] EXCEPT !.active = (i = q + 1)]]

\* applyQualitySettings() for the new quality q, up to its await; the caller
\* sets lastAdjustment when it resumes
ApplyQualitySettings(q, now) ==
  IF Len(encodings) > 0
  THEN /\ Len(pending) < MaxPending
       /\ pending' = Append(pending, [encodings |-> QualitySettings(encodings, q), now |-> now])
       /\ UNCHANGED lastAdjustment
  ELSE /\ lastAdjustment' = now
       /\ UNCHANGED pending

\* decreaseQuality()
DecreaseQuality(now) ==
  IF currentQuality = 0
  THEN /\ lastAdjustment' = now
       /\ UNCHANGED <<currentQuality, pending>>
  ELSE /\ currentQuality' = currentQuality - 1
       /\ ApplyQualitySettings(currentQuality - 1, now)

\* increaseQuality()
IncreaseQuality(now) ==
  IF currentQuality = 2
  THEN /\ lastAdjustment' = now
       /\ UNCHANGED <<currentQuality, pending>>
  ELSE /\ currentQuality' = currentQuality + 1
       /\ ApplyQualitySettings(currentQuality + 1, now)

\* monitorAndAdjust(stats) with the stats of this moment, up to its await
MonitorAndAdjust ==
  LET now == clock
      metrics == AnalyzeStats(GetStats)
  IN  /\ IF Suppressed(now)
         THEN UNCHANGED <<currentQuality, lastAdjustment, pending>>
         ELSE IF Above(metrics.packetLoss, 5) \/ metrics.rtt > 200
         THEN DecreaseQuality(now)
         ELSE IF Below(metrics.packetLoss, 1) /\ metrics.rtt < 50 /\ metrics.bandwidth > 2000000
         THEN IncreaseQuality(now)
         ELSE /\ lastAdjustment' = now
              /\ UNCHANGED <<currentQuality, pending>>
      /\ UNCHANGED <<encodings, clock, counters, roundTrip, sendRate>>
      /\ UNCHANGED multiVars
      /\ UNCHANGED <<serverVars, clientVars>>

\* the promise of the oldest setParameters call resolves: the sender has the
\* new encodings and monitorAndAdjust resumes at `this.lastAdjustment = now`
SetParametersSettles ==
  /\ pending # <<>>
  /\ encodings' = Head(pending).encodings
  /\ lastAdjustment' = Head(pending).now
  /\ pending' = Tail(pending)
  /\ UNCHANGED <<currentQuality, clock, counters, roundTrip, sendRate>>
  /\ UNCHANGED multiVars
  /\ UNCHANGED <<serverVars, clientVars>>

\* one tick passes: the sender sends 100 packets and dBytes bytes, dLost of the
\* packets are lost, and the round-trip time is rtt
Transmit(dBytes, dLost, rtt) ==
  /\ clock < MaxTicks * Tick
  /\ clock' = clock + Tick
  /\ counters' = [packetsSent |-> counters.packetsSent + 100,
                  packetsLost |-> counters.packetsLost + dLost,
                  bytesSent |-> counters.bytesSent + dBytes]
  /\ roundTrip' = rtt
  /\ sendRate' = ((dBytes * 8) \div Tick) * 1000
  /\ UNCHANGED <<currentQuality, lastAdjustment, encodings, pending>>
  /\ UNCHANGED multiVars
  /\ UNCHANGED <<serverVars, clientVars>>

BitrateNext ==
  \/ \E dBytes \in ByteDeltas, dLost \in LostDeltas, rtt \in RoundTrips :
        Transmit(dBytes, dLost, rtt)
  \/ MonitorAndAdjust
  \/ SetParametersSettles

\* the bitrate controller of one sender
BitrateSpec == Init /\ [][BitrateNext]_vars

\* ============================================== the multi-destination manager
\* MultiStreamManager (src/lib/streaming/webrtc-manager.ts). A MediaStream is
\* known by the state of its tracks: "live" when a track has not ended,
\* "ended" when every track has ended, "none" when it has no track.

\* source.clone(): the clone has clones of the tracks, in the state they are in
Clone(source) == [tracks |-> source]

\* MediaStream.active: the stream has a track that has not ended
Active(stream) == stream.tracks = "live"

\* startMultiStream(localStream) with localStream = source: the body of every mapped function runs to
\* its end when it is called
StartMultiStream(source) ==
  /\ multiStreams' =
       [p \in DOMAIN multiStreams \cup DOMAIN rtmpEndpoints |->
          IF p \in DOMAIN rtmpEndpoints THEN Clone(source) ELSE multiStreams[p]]
  /\ UNCHANGED <<destinations, rtmpEndpoints>>
  /\ UNCHANGED bitrateVars
  /\ UNCHANGED <<serverVars, clientVars>>

\* stopAllStreams()
StopAllStreams ==
  /\ multiStreams' = [p \in {} |-> Clone("none")]
  /\ UNCHANGED <<destinations, rtmpEndpoints>>
  /\ UNCHANGED bitrateVars
  /\ UNCHANGED <<serverVars, clientVars>>

\* mutant: stopping one platform drops the streams of all
StopStreamDroppingAll(platform) ==
  /\ multiStreams' =
       IF platform \in DOMAIN multiStreams
       THEN [p \in {} |-> Clone("none")]
       ELSE multiStreams
  /\ UNCHANGED <<destinations, rtmpEndpoints>>
  /\ UNCHANGED bitrateVars
  /\ UNCHANGED <<serverVars, clientVars>>

\* stopStream(platform)
StopStream(platform) ==
  /\ multiStreams' =
       IF platform \in DOMAIN multiStreams
       THEN MapDelete(multiStreams, platform)
       ELSE multiStreams
  /\ UNCHANGED <<destinations, rtmpEndpoints>>
  /\ UNCHANGED bitrateVars
  /\ UNCHANGED <<serverVars, clientVars>>

\* getStreamHealth()
GetStreamHealth ==
  [p \in DOMAIN rtmpEndpoints |->
     [platform |-> p,
      active |-> p \in DOMAIN multiStreams /\ Active(multiStreams[p])]]

\* the streams a caller may hand to startMultiStream
LocalStreams == {"live", "ended", "none"}

MultiNext ==
  \/ \E source \in LocalStreams : StartMultiStream(source)
  \/ StopAllStreams
  \/ \E platform \in Platforms : StopStream(platform)

\* one manager, constructed with any list of destinations
MultiSpec == InitMultiStream /\ [][MultiNext]_vars

\* ----------------------------------------------------------- the client's claims
\* C4: a remote ICE candidate that reaches a peer connection before its remote
\* description is set is kept and applied afterwards, in arrival order: no
\* candidate a peer connection was there for is lost, and the candidates
\* applied were applied in the order they arrived.
C4_CandidatesBuffered ==
  /\ rejected = {}
  /\ \A i, j \in 1..Len(applied) : i < j => applied[i] < applied[j]

StrictlyIncreasing(seq) == \A i, j \in 1..Len(seq) : i < j => seq[i] < seq[j]

\* C5: the delays scheduled since the last successful open are strictly
\* increasing, the attempt counter never exceeds maxReconnectAttempts, and once
\* it has reached it no step schedules another reconnect.
C5_ReconnectBackoff ==
  /\ [](/\ StrictlyIncreasing(delays)
        /\ reconnectAttempts <= maxReconnectAttempts
        /\ Len(delays) = reconnectAttempts)
  /\ [][reconnectAttempts = maxReconnectAttempts =>
          /\ timers' \subseteq timers
          /\ delays' \in {delays, <<>>}]_vars

\* the ceiling is reached after five growing delays, and a later disconnect of
\* the session has scheduled nothing
C5_Witness ==
  /\ reconnectAttempts = maxReconnectAttempts
  /\ delays = <<2000, 4000, 6000, 8000, 10000>>
  /\ streamerRole # NoRole
  /\ gaveUp
  /\ timers = {}

\* ------------------------------------------------------------ the relay's claims
IsJoin(type) == lastEvent.kind = "message" /\ lastEvent.type = type

IsRelay == lastEvent.kind = "message" /\ \E in \in RelayInputs : in[1] = lastEvent.type

Viewers(s) == IF Has(s) THEN Range(streams[s].viewers) ELSE {}

\* C1: every session has at most one broadcaster, and after join-as-broadcaster(S)
\* by connection c the broadcaster of S is c, whoever was registered before.
C1_LastBroadcasterWins ==
  /\ \A s \in DOMAIN streams :
        Cardinality({c \in Conns : streams[s].broadcaster = c}) <= 1
  /\ IsJoin("join-as-broadcaster") =>
        /\ Has(lastEvent.streamId)
        /\ streams[lastEvent.streamId].broadcaster = lastEvent.conn

\* a join-as-broadcaster has superseded a broadcaster that is still connected
C1_Witness ==
  /\ IsJoin("join-as-broadcaster")
  /\ \E d \in Conns \ {lastEvent.conn} :
        /\ readyState[d] = "open" /\ role[d] = "broadcaster"
        /\ currentStreamId[d] = lastEvent.streamId

\* C2: a join-as-viewer into a session with a broadcaster sends exactly one
\* broadcaster-available, to the joining connection, in the same step, and
\* nothing to anyone else; without a broadcaster it sends nothing.
C2_ViewerJoinNotifiesJoinerOnly ==
  IsJoin("join-as-viewer") =>
    IF streams[lastEvent.streamId].broadcaster # NoConn
    THEN lastSent = <<Msg(lastEvent.conn, "broadcaster-available", NoData, Undefined)>>
    ELSE lastSent = <<>>

\* a viewer has joined a session that has a broadcaster and another open viewer
C2_Witness ==
  /\ IsJoin("join-as-viewer")
  /\ streams[lastEvent.streamId].broadcaster # NoConn
  /\ \E v \in Viewers(lastEvent.streamId) \ {lastEvent.conn} : readyState[v] = "open"
  /\ Len(lastSent) = 1

\* C3: no session of the registry has neither a broadcaster nor a viewer.
C3_NoEmptySession ==
  \A s \in DOMAIN streams :
    streams[s].broadcaster # NoConn \/ Len(streams[s].viewers) > 0

\* a close has removed the session of the closing connection from the registry
C3_Witness ==
  /\ lastEvent.kind = "close"
  /\ lastEvent.streamId # NoStream
  /\ ~Has(lastEvent.streamId)

\* the step is the close of connection c
Closes(c) == readyState[c] = "open" /\ readyState'[c] = "closed"

BroadcasterLeft(v) == Msg(v, "broadcaster-left", NoData, Undefined)

\* C6: an offer of the session's broadcaster whose targetViewerId is the viewerId
\* that an earlier viewer-request carried is delivered, with its payload, to the
\* connection that sent that request-stream and to no one else, whoever joined or
\* left the session in between. (lastRequest remembers the viewer-request; it is
\* forgotten when the requester joins again or closes.)
C6_OfferReachesRequester ==
  LET b == lastEvent.conn
      s == lastEvent.streamId
      v == lastRequest.conn
  IN  (/\ IsRelay /\ lastEvent.type = "offer"
       /\ role[b] = "broadcaster" /\ Has(s) /\ streams[s].broadcaster = b
       /\ v # NoConn /\ lastRequest.to = b
       /\ role[v] = "viewer" /\ currentStreamId[v] = s
       /\ lastEvent.targetViewerId = lastRequest.viewerId)
      => lastSent = <<Msg(v, "offer", lastEvent.data, Undefined)>>

\* the id the relay attaches to member c of the viewer set of s
ViewerIdOf(c, s) == GetViewerId(c, s, CHOOSE t \in Timestamps : TRUE)

\* c is a connected member of the viewer set of the session it last joined
IsMember(c, s) ==
  readyState[c] = "open" /\ currentStreamId[c] = s /\ c \in Viewers(s)

\* C7: the viewer id of a connection stays the same while the connection is a
\* member of the viewer set, whoever else joins or leaves, and two members of a
\* viewer set never have the same id.
C7_StableViewerId ==
  /\ [][\A c \in Conns, s \in StreamIds :
          (IsMember(c, s) /\ IsMember(c, s)') => ViewerIdOf(c, s)' = ViewerIdOf(c, s)]_vars
  /\ [](\A s \in StreamIds : \A c, d \in Viewers(s) :
          c # d => ViewerIdOf(c, s) # ViewerIdOf(d, s))

\* C8 as stated: when a connection that is registered as the broadcaster of a
\* session with viewers closes, the session's broadcaster becomes empty, every
\* viewer of the session receives exactly one broadcaster-left, the viewer set
\* is unchanged and the session stays in the registry.
C8_AsStated ==
  [][\A c \in Conns, s \in StreamIds :
       (Closes(c) /\ Has(s) /\ streams[s].broadcaster = c /\ Len(streams[s].viewers) > 0)
       => /\ s \in DOMAIN streams'
          /\ streams'[s].broadcaster = NoConn
          /\ streams'[s].viewers = streams[s].viewers
          /\ \A v \in Range(streams[s].viewers) :
                SelectSeq(lastSent', LAMBDA m : m.to = v) = <<BroadcasterLeft(v)>>]_vars

\* C9: when a connection whose role is viewer closes, it is removed from the
\* viewer set of its session, the session is deleted exactly when it then has no
\* broadcaster and no viewer, and no other session and no other viewer's
\* membership changes.
C9_ViewerClose ==
  [][\A c \in Conns :
       LET s == currentStreamId[c] IN
       (Closes(c) /\ role[c] = "viewer")
       => LET rest == SelectSeq(streams[s].viewers, LAMBDA v : v # c)
              gone == streams[s].broadcaster = NoConn /\ rest = <<>>
          IN  /\ c \in Range(streams[s].viewers)
              /\ (s \notin DOMAIN streams') <=> gone
              /\ ~gone => /\ streams'[s].viewers = rest
                          /\ streams'[s].broadcaster = streams[s].broadcaster
              /\ \A t \in StreamIds \ {s} :
                    /\ (t \in DOMAIN streams') <=> (t \in DOMAIN streams)
                    /\ t \in DOMAIN streams => streams'[t] = streams[t]]_vars

\* the last viewer of a session without a broadcaster has closed, and another
\* session is still there
C9_Witness ==
  /\ lastEvent.kind = "close"
  /\ lastEvent.streamId # NoStream
  /\ ~Has(lastEvent.streamId)
  /\ lastSent = <<>>
  /\ DOMAIN streams # {}

\* C10: an offer, answer or ice-candidate from a connection whose role is viewer
\* goes to the broadcaster of the sender's session and to no one else, with the
\* type and data it came with and a viewer id that names the sender; nothing is
\* delivered when the session has no broadcaster.
C10_ViewerRelay ==
  (IsRelay /\ role[lastEvent.conn] = "viewer") =>
    LET c == lastEvent.conn
        s == lastEvent.streamId
        b == streams[s].broadcaster
    IN  /\ s = currentStreamId[c]
        /\ b = NoConn => lastSent = <<>>
        /\ (b # NoConn /\ readyState[b] = "open") => Len(lastSent) = 1
        /\ \A i \in 1..Len(lastSent) :
              /\ lastSent[i].to = b
              /\ lastSent[i].type = lastEvent.type
              /\ lastSent[i].data = lastEvent.data
              /\ FindViewerById(streams[s].viewers, lastSent[i].viewerId) = c

\* the second viewer of a session has had an answer relayed to the broadcaster
C10_Witness ==
  /\ IsRelay /\ lastEvent.type = "answer"
  /\ role[lastEvent.conn] = "viewer"
  /\ Len(lastSent) = 1
  /\ lastSent[1].viewerId = <<"viewer-", "1">>
  /\ lastSent[1].to \notin Viewers(lastEvent.streamId)

\* the message of type and data of the relayed event, put on connection v
Relayed(v) == Msg(v, lastEvent.type, lastEvent.data, Undefined)

\* C11: an offer, answer or ice-candidate from a broadcaster reaches exactly the
\* viewer its targetViewerId resolves to, and when the target is missing or
\* resolves to no viewer it reaches every member of the viewer set of the
\* sender's session, each once, and no other connection.
C11_BroadcasterRelay ==
  LET c == lastEvent.conn
      s == lastEvent.streamId
  IN  (IsRelay /\ role[c] = "broadcaster" /\ s # NoStream /\ Has(s)) =>
        LET viewers == streams[s].viewers
            t == IF Truthy(lastEvent.targetViewerId)
                 THEN FindViewerById(viewers, lastEvent.targetViewerId)
                 ELSE NoConn
        IN  IF t # NoConn
            THEN lastSent = <<Relayed(t)>>
            ELSE lastSent = [i \in 1..Len(viewers) |-> Relayed(viewers[i])]

\* the step handles a message of this type from connection c
Handles(c, type) ==
  /\ lastEvent' # lastEvent \/ lastSent' # lastSent
  /\ lastEvent'.kind = "message" /\ lastEvent'.type = type /\ lastEvent'.conn = c

\* C12: a request-stream from a connection that has joined as viewer sends exactly
\* one viewer-request, to the broadcaster of the requester's session and carrying
\* an id that names the requester; no one else receives anything and the
\* registry is unchanged; when the session has no broadcaster nothing is sent.
C12_RequestStream ==
  [][\A c \in Conns :
       (Handles(c, "request-stream") /\ role[c] = "viewer") =>
         LET s == currentStreamId[c]
             b == streams[s].broadcaster
         IN  /\ streams' = streams
             /\ b = NoConn => lastSent' = <<>>
             /\ b # NoConn =>
                  /\ Len(lastSent') = 1
                  /\ lastSent'[1].to = b
                  /\ lastSent'[1].type = "viewer-request"
                  /\ FindViewerById(streams[s].viewers, lastSent'[1].viewerId) = c]_vars

\* C13: a join-as-broadcaster for S sends one broadcaster-available to every
\* member of the viewer set of S, in the same step, and nothing to anyone else.
C13_BroadcasterJoinNotifiesViewers ==
  IsJoin("join-as-broadcaster") =>
    LET viewers == streams[lastEvent.streamId].viewers
    IN  lastSent = [i \in 1..Len(viewers) |->
                      Msg(viewers[i], "broadcaster-available", NoData, Undefined)]

\* the messages of the last step that are joins
JoinsSent == SelectSeq(clientSent, LAMBDA m : m.type \in {"join-as-broadcaster", "join-as-viewer"})

\* C14: close() cancels every pending reconnect timer and closes the transport:
\* while the streamer stays closed no timer is pending, no socket is created and
\* no join is sent; a close() of a closed streamer changes nothing.
C14_CloseCancels ==
  /\ [](streamerRole = NoRole => (timers = {} /\ ws = 0 /\ JoinsSent = <<>>))
  /\ [][(streamerRole = NoRole /\ streamerRole' = NoRole) =>
          /\ timers' \subseteq timers
          /\ DOMAIN sockets' \subseteq DOMAIN sockets]_vars
  /\ [][(streamerRole = NoRole /\ CloseStreamer) =>
          UNCHANGED <<sessionVars, peerVars>>]_vars

\* the step is the close event of a socket, after an error or not
Disconnects == \E n \in 1..MaxSockets : SocketClose(n) \/ SocketError(n)

\* one reconnect is scheduled, after the new attempt count times BaseDelay
SchedulesOne ==
  /\ reconnectAttempts' = reconnectAttempts + 1
  /\ Cardinality(timers' \ timers) = 1 /\ timers \subseteq timers'
  /\ delays' = Append(delays, BaseDelay * reconnectAttempts')

SchedulesNone == timers' = timers /\ reconnectAttempts' = reconnectAttempts /\ delays' = delays

\* C15 as stated: whenever a socket closes and a role is set, one reconnect is
\* scheduled after attempt count times 2000 ms and the count grows by one;
\* with no role set nothing is scheduled.
C15_AsStated ==
  [][Disconnects => IF streamerRole # NoRole THEN SchedulesOne ELSE SchedulesNone]_vars

\* C15, amended: whenever a socket closes, a role is set and the attempt count is
\* below maxReconnectAttempts, one reconnect is scheduled after the new attempt
\* count times 2000 ms and the count grows by one; with no role set, or at the
\* ceiling, nothing is scheduled.
C15_ReconnectScheduled ==
  [][Disconnects =>
       IF streamerRole # NoRole /\ reconnectAttempts < maxReconnectAttempts
       THEN SchedulesOne ELSE SchedulesNone]_vars

\* the third disconnect in a row has scheduled the reconnect after 6000 ms
C15_Witness ==
  /\ streamerRole # NoRole
  /\ reconnectAttempts = 3
  /\ delays = <<2000, 4000, 6000>>
  /\ Cardinality(timers) = 1
  /\ reconnectTimeout \in timers

\* the step is the open event of a socket that a reconnect timer created
ReconnectOpens ==
  \E n \in 1..MaxSockets : SocketOpen(n) /\ sockets[n].origin = "reconnect"

\* the join message of a role
JoinOf(r) ==
  ClientMsg(IF r = "broadcaster" THEN "join-as-broadcaster" ELSE "join-as-viewer",
            NoData, Undefined)

\* C16: when the socket of a reconnect attempt opens, the streamer sends exactly
\* one message, the join of its role, and the attempt count becomes zero.
C16_RejoinOnReconnect ==
  [][(ReconnectOpens /\ streamerRole # NoRole) =>
       /\ reconnectAttempts' = 0
       /\ clientSent' = <<JoinOf(streamerRole)>>]_vars

\* what the streamer hands to its caller when handleDisconnect schedules nothing:
\* the if has no else branch, nothing is thrown, no callback is called and the
\* promises of startBroadcast and startViewing have caught every rejection
SurfacedFailure == FALSE

\* C17: once a disconnect at the reconnect ceiling has scheduled nothing, a
\* terminal failure has been surfaced to the caller.
C17_TerminalFailureSurfaced ==
  (gaveUp /\ reconnectAttempts = maxReconnectAttempts /\ streamerRole # NoRole)
    => SurfacedFailure

\* C18: every connection is in the viewer set of at most one session.
C18_OneViewerSetPerConnection ==
  \A c \in Conns : Cardinality({s \in DOMAIN streams : c \in Viewers(s)}) <= 1

\* C19: every message the relay sends has a streamId field, which holds the
\* stream id of the session the handled event concerns.
C19_MessagesCarryStreamId ==
  \A i \in 1..Len(lastSent) :
    /\ "streamId" \in DOMAIN lastSent[i]
    /\ lastSent[i].streamId = lastEvent.streamId

\* C20: a message that does not parse changes neither the registry nor the
\* role and stream of any connection, sends nothing and closes no connection;
\* the relay is then in the state it was in, so later messages are handled as
\* they would have been.
C20_MalformedDiscarded ==
  /\ [](lastEvent.kind = "malformed" =>
          (lastSent = <<>> /\ readyState[lastEvent.conn] = "open"))
  /\ [][lastEvent'.kind = "malformed" =>
          UNCHANGED <<streams, currentStreamId, role, readyState>>]_vars

\* a viewer of a session with a broadcaster has sent a message that does not parse
C20_Witness ==
  /\ lastEvent.kind = "malformed"
  /\ role[lastEvent.conn] = "viewer"
  /\ Has(lastEvent.streamId)
  /\ streams[lastEvent.streamId].broadcaster \notin {NoConn, lastEvent.conn}
  /\ readyState[streams[lastEvent.streamId].broadcaster] = "open"

\* the streamer was last started by startBroadcast with a stream without tracks
EmptyBroadcast == streamerRole = "broadcaster" /\ localStream = "empty"

\* the sockets the step creates
NewSockets ==
  {n \in DOMAIN sockets' :
     sockets'[n].state = "connecting" /\
     (n \notin DOMAIN sockets \/ sockets[n].state # "connecting")}

\* C21: a streamer started by startBroadcast with a stream that has no tracks
\* never joins the registry: that call, and every later event while the
\* streamer stays so started, creates no socket, and no join-as-broadcaster is
\* sent.
C21_EmptyStreamNeverJoins ==
  /\ [](EmptyBroadcast =>
          \A i \in 1..Len(clientSent) : clientSent[i].type # "join-as-broadcaster")
  /\ [][EmptyBroadcast' => NewSockets = {}]_vars

\* the tier the hysteresis policy asks for from tier q, at a sample with this
\* loss (percent), round-trip time (ms) and send bandwidth (bits per second)
PolicyTier(q, loss, rtt, bandwidth) ==
  IF Above(loss, 5) \/ rtt > 200 THEN (IF q = 0 THEN 0 ELSE q - 1)
  ELSE IF Below(loss, 1) /\ rtt < 50 /\ bandwidth > 2000000 THEN (IF q = 2 THEN 2 ELSE q + 1)
  ELSE q

\* the step is a call of monitorAndAdjust that the sampling interval does not suppress
Sampled == MonitorAndAdjust /\ ~Suppressed(clock)

\* C22: at each sample that the sampling interval does not suppress, the tier
\* moves down by one if loss > 5% or RTT > 200 ms, otherwise up by one if
\* loss < 1% and RTT < 50 ms and the send bandwidth > 2 Mbps, otherwise it stays;
\* a decrease at tier 0 and an increase at tier 2 leave it unchanged, and the
\* tier is always one of the three.
C22_HysteresisPolicy ==
  /\ [](currentQuality \in 0..2)
  /\ [][Sampled =>
          currentQuality' = PolicyTier(currentQuality, AnalyzeStats(GetStats).packetLoss,
                                       AnalyzeStats(GetStats).rtt, sendRate)]_vars

\* the tier an encoding of the ladder is: the resolution enableAdaptiveBitrate
\* names in the comment of its maxBitrate
EncodingLabel(rid) ==
  CASE rid = "h" -> "1080p"
    [] rid = "m" -> "720p"
    [] rid = "l" -> "480p"

\* getQualityLabel()
GetQualityLabel ==
  LET labels == <<"480p", "720p", "1080p">>
  IN  IF currentQuality + 1 \in 1..Len(labels) THEN labels[currentQuality + 1] ELSE "unknown"

\* the encodings of the sender that are active
ActiveEncodings == {i \in 1..Len(encodings) : encodings[i].active}

\* C23: at every instant exactly one encoding of the ladder is active on the
\* controlled sender, and it is the tier the controller reports as its current
\* quality.
C23_OneActiveTier ==
  /\ Cardinality(ActiveEncodings) = 1
  /\ \A i \in ActiveEncodings : EncodingLabel(encodings[i].rid) = GetQualityLabel

\* the platforms of the destinations that are enabled
EnabledPlatforms ==
  {destinations[i].platform : i \in {j \in 1..Len(destinations) : destinations[j].enabled}}

\* C24 as stated: the health snapshot has one entry for every platform of an
\* enabled destination and none for any other, and the active flag of an entry
\* is true exactly when a cloned stream is held for its platform.
C24_AsStated ==
  /\ DOMAIN GetStreamHealth = EnabledPlatforms
  /\ \A p \in DOMAIN GetStreamHealth :
        /\ GetStreamHealth[p].platform = p
        /\ GetStreamHealth[p].active <=> p \in DOMAIN multiStreams

\* C24, amended: the health snapshot has one entry for every platform of an
\* enabled destination and none for any other; no entry is active before any
\* start; startMultiStream makes every entry active when the stream it is given
\* has a track that has not ended, and inactive when it has none;
\* stopStream(platform) makes the entry of that platform inactive and leaves the
\* others as they were; stopAllStreams makes every entry inactive; and an active
\* entry always has a cloned stream held for its platform.
C24_HealthSnapshot ==
  /\ [](/\ DOMAIN GetStreamHealth = EnabledPlatforms
        /\ \A p \in DOMAIN GetStreamHealth :
              /\ GetStreamHealth[p].platform = p
              /\ GetStreamHealth[p].active => p \in DOMAIN multiStreams
              /\ multiStreams = <<>> => ~GetStreamHealth[p].active)
  /\ [][\A source \in LocalStreams : StartMultiStream(source) =>
          \A p \in EnabledPlatforms : GetStreamHealth'[p].active <=> source = "live"]_vars
  /\ [][\A platform \in Platforms : StopStream(platform) =>
          \A p \in EnabledPlatforms :
            GetStreamHealth'[p].active <=> (p # platform /\ GetStreamHealth[p].active)]_vars
  /\ [][StopAllStreams => \A p \in EnabledPlatforms : ~GetStreamHealth'[p].active]_vars

\* of two enabled destinations, one has been stopped and the other is still active
C24_Witness ==
  \E p, q \in DOMAIN GetStreamHealth :
    /\ p # q
    /\ GetStreamHealth[p].active /\ p \in DOMAIN multiStreams
    /\ ~GetStreamHealth[q].active /\ q \notin DOMAIN multiStreams

\* C25: the close of a connection clears the broadcaster field of a session and
\* sends broadcaster-left only if that field refers to the closing connection:
\* a session whose broadcaster is another connection keeps it, and when the
\* closing connection is not the broadcaster of its session no broadcaster-left
\* is sent.
C25_CloseOfSupersededBroadcaster ==
  [][\A c \in Conns :
       Closes(c) =>
         /\ \A s \in DOMAIN streams :
              streams[s].broadcaster \notin {NoConn, c} =>
                /\ s \in DOMAIN streams'
                /\ streams'[s].broadcaster = streams[s].broadcaster
         /\ (currentStreamId[c] = NoStream
               \/ ~Has(currentStreamId[c])
               \/ streams[currentStreamId[c]].broadcaster # c) =>
              \A i \in 1..Len(lastSent') : lastSent'[i].type # "broadcaster-left"]_vars

\* the messages of the last step that are offers or answers
DescriptionsSent(sent) == SelectSeq(sent, LAMBDA m : m.type \in {"offer", "answer"})

\* C26: a peer connection that has been superseded or torn down is not brought
\* back: while the streamer is closed it holds no peer connection, and an offer
\* or an answer is sent only for the peer connection that is current.
C26_NoResurrection ==
  /\ [](streamerRole = NoRole => peerConnection = 0)
  /\ [][\A p \in 1..MaxPcs :
          (PcStep(p) /\ DescriptionsSent(clientSent') # <<>>) => p = peerConnection]_vars

\* the peer connections of the streamer that are not closed
Unclosed == DOMAIN pcs

\* C27: a streamer has at most one peer connection that is not closed: whenever
\* a peer connection becomes current, every peer connection the streamer
\* created before has been closed.
C27_OneActivePeerConnection ==
  /\ Cardinality(Unclosed) <= 1
  /\ Unclosed \subseteq {peerConnection}

\* C28: every ICE candidate a peer connection of the streamer generates is
\* forwarded to the relay in the step that generates it, in one ice-candidate
\* message of its own, whatever state the signaling transport is in.
C28_LocalCandidatesForwarded ==
  [][gathered' # gathered =>
       clientSent' = <<ClientMsg("ice-candidate", "cand1", Undefined)>>]_vars

\* the operations that add candidate c, pending on any peer connection
Adding(c) ==
  {<<p, i>> \in (DOMAIN pcs) \X (1..MaxChain) :
     i <= Len(pcs[p].chain) /\ pcs[p].chain[i].kind = "addIceCandidate"
                            /\ pcs[p].chain[i].candidate = c}

\* the number of times candidate c has been applied
TimesApplied(c) == Cardinality({i \in 1..Len(applied) : applied[i] = c})

RoleOf(type) == IF type = "join-as-broadcaster" THEN "broadcaster" ELSE "viewer"

\* the step handles a join of connection c, which has joined before, with
\* another role or another stream id than it has
JoinsAgain(c) ==
  /\ lastEvent'.conn = c
  /\ currentStreamId[c] # NoStream
  /\ Handles(c, "join-as-broadcaster") \/ Handles(c, "join-as-viewer")
  /\ lastEvent'.streamId # currentStreamId[c] \/ RoleOf(lastEvent'.type) # role[c]

\* C30: when a connection that has joined a session joins again with another
\* role or another stream id, its role and stream id become those of the new
\* join, and it is not taken out of the old session: a session other than the
\* one joined stays as it was, and in the session joined the registration the
\* connection had under its old role stays as it was.
C30_RejoinLeavesOldSession ==
  [][\A c \in Conns :
       JoinsAgain(c) =>
         LET old == currentStreamId[c] IN
         /\ currentStreamId'[c] = lastEvent'.streamId
         /\ role'[c] = RoleOf(lastEvent'.type)
         /\ (Has(old) /\ old # lastEvent'.streamId) =>
              /\ old \in DOMAIN streams'
              /\ streams'[old] = streams[old]
         /\ (Has(old) /\ old = lastEvent'.streamId) =>
              IF role[c] = "viewer"
              THEN streams'[old].viewers = streams[old].viewers
              ELSE streams'[old].broadcaster = streams[old].broadcaster]_vars

\* a viewer of one session has joined another session and is still in the
\* viewer set of the first
C30_Witness ==
  /\ IsJoin("join-as-viewer") \/ IsJoin("join-as-broadcaster")
  /\ rejoins > 0
  /\ currentStreamId[lastEvent.conn] = lastEvent.streamId
  /\ \E s \in DOMAIN streams \ {lastEvent.streamId} : lastEvent.conn \in Viewers(s)

\* the step handles a request-stream, offer, answer or ice-candidate of connection c
Routes(c) ==
  /\ lastEvent'.conn = c
  /\ Handles(c, "request-stream") \/ \E in \in RelayInputs : Handles(c, in[1])

\* C31: a request-stream, offer, answer or ice-candidate from a connection that
\* has not joined any stream, or whose session is no longer in the registry, is
\* ignored: nothing is sent to anyone, no session is created and the registry is
\* unchanged.
C31_UnknownStreamIgnored ==
  [][\A c \in Conns :
       (Routes(c) /\ (currentStreamId[c] = NoStream \/ ~Has(currentStreamId[c]))) =>
         /\ lastSent' = <<>>
         /\ streams' = streams
         /\ UNCHANGED <<currentStreamId, role, readyState>>]_vars

\* a connection that joined as broadcaster, and whose session has since been
\* deleted, has sent an offer while another session has a viewer
C31_Witness ==
  /\ IsRelay /\ lastEvent.type = "offer"
  /\ role[lastEvent.conn] = "broadcaster"
  /\ lastEvent.streamId # NoStream /\ ~Has(lastEvent.streamId)
  /\ lastSent = <<>>
  /\ \E s \in DOMAIN streams : Len(streams[s].viewers) > 0

\* the streamer is a viewer whose signaling transport is open
ViewerConnected == streamerRole = "viewer" /\ ws # 0 /\ sockets[ws].state = "open"

\* the last step announced the viewer: it sent join-as-viewer
AnnouncesViewer == \E i \in 1..Len(clientSent) : clientSent[i].type = "join-as-viewer"

\* C32: a viewer has a peer connection when its join is announced and keeps one
\* while the transport the join was sent on stays open: a step that sends
\* join-as-viewer leaves a peer connection in place, and no step of a connected
\* viewer that keeps its transport takes the peer connection away.
C32_PeerConnectionBeforeJoin ==
  /\ [](AnnouncesViewer => peerConnection # 0)
  /\ [][(ViewerConnected /\ peerConnection # 0 /\ ws' = ws /\ ViewerConnected') =>
          peerConnection' # 0]_vars

\* the operations of kind `kind` that are pending on any peer connection
PendingOps(kind) ==
  UNION {{<<p, i>> : i \in {j \in 1..Len(pcs[p].chain) : pcs[p].chain[j].kind = kind}} :
           p \in DOMAIN pcs}

\* the operations handleOffer awaits, in the order it calls them
AnswerSteps == <<"setRemoteOffer", "createAnswer", "setLocalAnswer">>

\* the handleOffer calls that are in progress: each awaits one operation
OffersInProgress ==
  Cardinality(UNION {PendingOps(AnswerSteps[k]) : k \in 1..Len(AnswerSteps)})

\* the step settles the operation of this kind at the head of the chain of
\* connection p, with success or not
Settles(p, kind, ok) ==
  /\ PcStep(p)
  /\ Head(pcs[p].chain).kind = kind
  /\ Succeeds(pcs[p], Head(pcs[p].chain)) = ok

\* the answers among the messages sent
AnswersSent(sent) == SelectSeq(sent, LAMBDA m : m.type = "answer")

\* C33: an offer received starts one handleOffer, which sets the remote
\* description, creates the answer, sets the local description and sends the
\* answer, in this order: each operation is called only when the one before it
\* has succeeded, one answer is sent exactly when the local description has been
\* set, which ends the call, and an operation that fails ends the call with no
\* answer sent and nothing called again.
C33_AnswerAfterThreeSteps ==
  /\ [][Cardinality(PendingOps("setRemoteOffer")') > Cardinality(PendingOps("setRemoteOffer")) =>
          /\ ReceiveOffer
          /\ OffersInProgress' = OffersInProgress + 1]_vars
  /\ [][\A k \in 2..Len(AnswerSteps) :
          Cardinality(PendingOps(AnswerSteps[k])') > Cardinality(PendingOps(AnswerSteps[k])) =>
            /\ \E p \in 1..MaxPcs : Settles(p, AnswerSteps[k - 1], TRUE)
            /\ OffersInProgress' = OffersInProgress]_vars
  /\ [][AnswersSent(clientSent') # <<>> =>
          /\ \E p \in 1..MaxPcs : Settles(p, "setLocalAnswer", TRUE)
          /\ Len(AnswersSent(clientSent')) = 1
          /\ OffersInProgress' = OffersInProgress - 1]_vars
  /\ [][\A p \in 1..MaxPcs :
          /\ Settles(p, "setLocalAnswer", TRUE) =>
               clientSent' = SendMessage(ws, sockets, "answer", "sdp2", Undefined)
          /\ (\E k \in 1..Len(AnswerSteps) : Settles(p, AnswerSteps[k], FALSE)) =>
               /\ clientSent' = <<>>
               /\ OffersInProgress' = OffersInProgress - 1]_vars

\* the answer to the first of two offers has been sent, and the call that handles
\* the second has reached its last operation, which will fail
C33_Witness ==
  /\ Len(AnswersSent(clientSent)) = 1
  /\ peerConnection # 0
  /\ pcs[peerConnection].signalingState = "stable"
  /\ pcs[peerConnection].chain # <<>>
  /\ Head(pcs[peerConnection].chain).kind = "setLocalAnswer"

\* automatic reconnection has stopped at the ceiling: the last disconnect
\* scheduled nothing and nothing is under way
Stopped ==
  /\ Quiet
  /\ streamerRole # NoRole
  /\ reconnectAttempts = maxReconnectAttempts
  /\ gaveUp

\* the step is the open event of a socket that startBroadcast or startViewing created
ManualOpens ==
  \E n \in 1..MaxSockets :
    SocketOpen(n) /\ sockets[n].origin \in {"startBroadcast", "startViewing"}

\* C34: after reconnection has stopped at the ceiling, startViewing or
\* startBroadcast with a stream that has tracks creates a socket whatever the
\* attempt count is; when that socket opens the join of the role is sent, the
\* attempt count is zero and the record of scheduled delays is empty; and a
\* disconnect of a streamer whose count is below the ceiling schedules the
\* reconnect of the next attempt.
C34_ManualRestartAfterCeiling ==
  /\ [][(Stopped /\ (StartViewing \/ StartBroadcast("live"))) =>
          Cardinality(NewSockets) = 1]_vars
  /\ [][(ManualOpens /\ reconnectAttempts = maxReconnectAttempts) =>
          /\ reconnectAttempts' = 0
          /\ delays' = <<>>
          /\ clientSent' = <<JoinOf(streamerRole)>>]_vars
  /\ [][(Disconnects /\ streamerRole # NoRole /\ reconnectAttempts < maxReconnectAttempts) =>
          SchedulesOne]_vars

\* a broadcaster whose reconnection had stopped at the ceiling has been started
\* again as a viewer: its socket has opened, the join is sent and the count is zero
C34_Witness ==
  /\ streamerRole = "viewer" /\ localStream = "live"
  /\ clientSent = <<JoinOf("viewer")>>
  /\ reconnectAttempts = 0
  /\ delays = <<>>

\* the time of the latest tier change: the call that made it is still awaiting
\* setParameters, or has set lastAdjustment; the time of creation when there was none
LastChange == IF pending # <<>> THEN pending[Len(pending)].now ELSE lastAdjustment

\* C35: the tier never changes twice within one sampling interval: a step that
\* changes the tier comes at least adjustmentThreshold after the latest change,
\* or after the creation of the controller when there was none, and a sample
\* that arrives earlier changes neither the tier nor the encodings of the sender
\* nor what is asked of the sender.
C35_NoOscillation ==
  /\ [][currentQuality' # currentQuality => clock - LastChange >= adjustmentThreshold]_vars
  /\ [][(MonitorAndAdjust /\ clock - LastChange < adjustmentThreshold) =>
          UNCHANGED <<currentQuality, encodings, pending>>]_vars

\* the bitrate ceiling of the tier a controller level stands for: level 0 is low
\* (480p, 500 kbps), 1 is medium (720p, 1.2 Mbps), 2 is high (1080p, 2.5 Mbps)
TierCeiling(q) ==
  CASE q = 0 -> 500000
    [] q = 1 -> 1200000
    [] q = 2 -> 2500000

\* the highest maxBitrate among the encodings that are active, 0 when none is
ActiveCeiling(encs) ==
  LET active == {i \in 1..Len(encs) : encs[i].active}
  IN  IF active = {} THEN 0
      ELSE encs[CHOOSE i \in active : \A j \in active : encs[j].maxBitrate <= encs[i].maxBitrate].maxBitrate

\* the bitrate ceiling applyQualitySettings() activates on the sender for level q
LevelCeiling(q) == ActiveCeiling(QualitySettings(encodings, q))

\* C36: on the ladder enableAdaptiveBitrate installs, a decrease of the level
\* never raises and an increase never lowers the bitrate ceiling the controller
\* activates, and once the sender has taken the settings of the current level
\* its active encoding has the ceiling of that level: 500 kbps for level 0,
\* 1.2 Mbps for level 1, 2.5 Mbps for level 2.
C36_LevelsFollowLadder ==
  /\ [][/\ currentQuality' < currentQuality =>
             LevelCeiling(currentQuality') <= LevelCeiling(currentQuality)
        /\ currentQuality' > currentQuality =>
             LevelCeiling(currentQuality') >= LevelCeiling(currentQuality)]_vars
  /\ [][(SetParametersSettles /\ pending' = <<>>) =>
          ActiveCeiling(encodings') = TierCeiling(currentQuality')]_vars

\* C37: an offer, answer or ice-candidate is forwarded to the viewers of a
\* session only when its sender is the broadcaster registered for that session:
\* when the relay has delivered a message of a connection whose role is
\* broadcaster, that connection is the broadcaster of its session.
C37_OnlyRegisteredBroadcasterRelays ==
  (IsRelay /\ role[lastEvent.conn] = "broadcaster" /\ lastSent # <<>>) =>
    /\ Has(lastEvent.streamId)
    /\ streams[lastEvent.streamId].broadcaster = lastEvent.conn

\* C38: the registry holds no reference to a connection that has closed: a
\* closed connection is the broadcaster of no session and a member of no
\* viewer set.
C38_ClosedConnectionForgotten ==
  \A c \in Conns :
    readyState[c] = "closed" =>
      \A s \in DOMAIN streams : streams[s].broadcaster # c /\ c \notin Viewers(s)

\* the sockets of the streamer that are connecting or open
LiveSockets == {n \in DOMAIN sockets : sockets[n].state \in {"connecting", "open"}}

\* C39: a streamer has at most one reconnect timer pending and at most one
\* signaling socket that is connecting or open.
C39_OneTimerOneTransport ==
  /\ Cardinality(timers) <= 1
  /\ Cardinality(LiveSockets) <= 1

\* createOfferForViewer(viewerId) is under way: one of its operations is pending
OfferRequested(viewerId) ==
  \E p \in DOMAIN pcs : \E i \in 1..Len(pcs[p].chain) :
    /\ pcs[p].chain[i].kind \in {"createOffer", "setLocalOffer"}
    /\ pcs[p].chain[i].viewerId = viewerId

\* the last step sent an offer addressed to this viewer
OfferSent(viewerId) ==
  \E i \in 1..Len(clientSent) :
    clientSent[i].type = "offer" /\ clientSent[i].targetViewerId = viewerId

\* C40: with no disconnection and every message and operation completing, a
\* viewer joined to the stream of a broadcaster with live tracks receives an
\* offer. The relay forwards the viewer's request-stream as a viewer-request
\* with the viewer's id and hands an offer to that viewer only when its
\* targetViewerId names it, so the broadcaster has to send, for every
\* viewer-request it handles, an offer addressed to that viewer.
\* Every joined viewer asks once, so the viewer-requests come to an end.
C40_EveryViewerIsOffered ==
  <>[][~ \E viewerId \in ViewerIds : ReceiveViewerRequest(viewerId)]_vars
    => \A viewerId \in ViewerIds : OfferRequested(viewerId) ~> OfferSent(viewerId)

====
